---- MODULE Spec2Model ----
(***************************************************************************)
(* Model of the Companies House registry client and of the network-graph   *)
(* builder (src/utils/companies_house_api.py).                             *)
(*                                                                         *)
(* Python strings are modelled as sequences of one-character strings, so   *)
(* that normalisation (replace, lower), prefixing and splitting are        *)
(* computed rather than assumed.                                           *)
(***************************************************************************)
EXTENDS Integers, Sequences, FiniteSets, TLC

VARIABLES
    pc,                   \* position of get_company_network
    max_companies,        \* its argument
    companies,            \* the list search_companies returned
    i,                    \* 1-based position of the for loop over companies[:max_companies]
    network,              \* the dict being built: nodes, edges, metadata
    processed_companies,  \* set of company numbers
    processed_people,     \* set of person/psc ids
    officers,             \* officers of the current company still to be looped over
    pscs,                 \* PSCs of the current company still to be looped over
    log,                  \* history: one entry per registry request of the build
    call,                 \* the last stand-alone client operation and what it returned
    prev,                 \* the build before this one on the same client: what it
                          \* was asked and answered, and the graph its caller holds
    now,                  \* time.time(), in ticks
    last_request_time,    \* the client's attribute
    rpc,                  \* position of _make_request
    sends,                \* history: when the last two requests were sent
    api_key,              \* Home.py: the sidebar's key field
    search_query,         \* Home.py: the sidebar's query field
    session_state,        \* Home.py: st.session_state
    shown                 \* Home.py: what the last button press did

\* the variables of the rate limiter, and those of the page
rateVars == <<now, last_request_time, rpc, sends>>

pageVars == <<api_key, search_query, session_state, shown>>

outside == <<rateVars, pageVars>>

vars == <<pc, max_companies, companies, i, network, processed_companies,
          processed_people, officers, pscs, log, call, prev, outside>>

buildVars == <<pc, max_companies, companies, i, network, processed_companies,
               processed_people, officers, pscs, log, prev>>

----------------------------------------------------------------------------
(* Bounds of the model *)

MaxHits == 2
MaxCap == 2
MaxOfficers == 2
MaxPscs == 2
MaxItems == 3

\* the registry answers one build with at most MaxData search hits and
\* officer and PSC records, in all
MaxData == 5

\* a build is repeated if the registry answered it with at most MaxReplay
\* search hits and officer and PSC records, in all
MaxReplay == 4

\* the clock stops starting requests after MaxTime ticks; a request, a pause
\* between two operations and an oversleep last at most MaxDelay ticks
MaxTime == 8

MaxDelay == 3

\* line 85: 0.1 s, in ticks of 0.05 s
min_request_interval == 2

----------------------------------------------------------------------------
(* Strings *)

Last(s) == s[Len(s)]

SeqsUpTo(S, n) == UNION {[1..k -> S] : k \in 0..n}

RECURSIVE SplitFrom(_, _, _)
\* str.split('/') of s[k..], cur being the segment read so far
SplitFrom(s, k, cur) ==
    IF k > Len(s) THEN <<cur>>
    ELSE IF s[k] = "/" THEN <<cur>> \o SplitFrom(s, k + 1, <<>>)
    ELSE SplitFrom(s, k + 1, Append(cur, s[k]))

Split(s) == SplitFrom(s, 1, <<>>)

\* sub in s
Contains(s, sub) ==
    \E k \in 1..(Len(s) - Len(sub) + 1) : SubSeq(s, k, k + Len(sub) - 1) = sub

ReplaceSpace(s) == [k \in 1..Len(s) |-> IF s[k] = " " THEN "_" ELSE s[k]]

\* lower() left out
LowerCharKept(c) == c

LowerChar(c) ==
    CASE c = "A" -> "a"
      [] c = "B" -> "b"
      [] OTHER -> c

Lower(s) == [k \in 1..Len(s) |-> LowerChar(s[k])]

----------------------------------------------------------------------------
(* The registry's possible answers *)

Num1 == <<"0", "1">>
Num2 == <<"0", "2">>
NoNumber == <<>>       \* 'company_number' missing or empty: falsy in Python

Numbers == {Num1, Num2}

NameAb == <<"A", " ", "b">>
Name_ab == <<"a", "_", "b">>
NameB == <<"B">>

Names == {NameAb, Name_ab, NameB}

\* the names the registry lists in a build: two officer names with one
\* normalised form and one with another, and a PSC name that is also an
\* officer's
OfficerNames == {NameAb, Name_ab, NameB}
PscNames == {NameAb, NameB}

\* officer_role and appointed_on of a raw officer item
Director == "director"
Secretary == "secretary"
Date1 == <<"2", "0", "0", "1">>
Date2 == <<"2", "0", "0", "2">>

GoodLink == <<"/", "o", "/", "x", "/", "a">>   \* /officers/<id>/appointments
NoLink == <<>>                                  \* link missing or empty
BareLink == <<"x">>                             \* no '/' at all

Links == {GoodLink, NoLink, BareLink, <<"x", "/", "a">>, <<"/">>}

\* the substrings get_pscs looks for, and kind strings of raw PSC items
CorporateEntity ==
    <<"c", "o", "r", "p", "o", "r", "a", "t", "e", "-", "e", "n", "t", "i", "t", "y">>
LegalPerson ==
    <<"l", "e", "g", "a", "l", "-", "p", "e", "r", "s", "o", "n">>
KindIndividual ==
    <<"i", "n", "d", "i", "v", "i", "d", "u", "a", "l", "-", "p", "e", "r", "s", "o", "n", "-", "w", "i", "t", "h", "-", "s", "i", "g", "n", "i", "f", "i", "c", "a", "n", "t", "-", "c", "o", "n", "t", "r", "o", "l">>
KindCorporate ==
    <<"c", "o", "r", "p", "o", "r", "a", "t", "e", "-", "e", "n", "t", "i", "t", "y", "-", "p", "e", "r", "s", "o", "n", "-", "w", "i", "t", "h", "-", "s", "i", "g", "n", "i", "f", "i", "c", "a", "n", "t", "-", "c", "o", "n", "t", "r", "o", "l">>
KindLegal ==
    <<"l", "e", "g", "a", "l", "-", "p", "e", "r", "s", "o", "n", "-", "p", "e", "r", "s", "o", "n", "-", "w", "i", "t", "h", "-", "s", "i", "g", "n", "i", "f", "i", "c", "a", "n", "t", "-", "c", "o", "n", "t", "r", "o", "l">>
KindBoth ==
    <<"l", "e", "g", "a", "l", "-", "p", "e", "r", "s", "o", "n", "-", "c", "o", "r", "p", "o", "r", "a", "t", "e", "-", "e", "n", "t", "i", "t", "y">>
KindEmpty == <<>>

Kinds == {KindIndividual, KindCorporate, KindLegal, KindBoth, KindEmpty}

\* A raw search hit (a dict), a raw officer item and a raw PSC item (hasKind:
\* the key 'kind' is present)
Hit(n) == [company_number |-> n]
OfficerItem(n, r, d, l) ==
    [name |-> n, officer_role |-> r, appointed_on |-> d, appointments |-> l]

\* the officer items of a build: 'A b' is a director, 'a_b' a secretary
\* appointed later, 'B' a director
BuildOfficerItem(n) ==
    IF n = Name_ab THEN OfficerItem(n, Secretary, Date2, GoodLink)
    ELSE OfficerItem(n, Director, Date1, GoodLink)
PscItem(n, h, k) == [name |-> n, hasKind |-> h, kind |-> k]

\* A parsed JSON body.  t: "none" (JSON null), "num" (a non-zero number),
\* "list" (a non-empty array without the string 'items'), "obj" (an object;
\* empty: {}; hasItems: the key 'items' is present, items: its value)
Body(t, e, h, it) == [t |-> t, empty |-> e, hasItems |-> h, items |-> it]
NoneBody == Body("none", TRUE, FALSE, <<>>)
NumBody == Body("num", FALSE, FALSE, <<>>)
ListBody == Body("list", FALSE, FALSE, <<>>)
EmptyObj == Body("obj", TRUE, FALSE, <<>>)
PlainObj == Body("obj", FALSE, FALSE, <<>>)    \* an object without 'items'
ItemsObj(it) == Body("obj", FALSE, TRUE, it)

\* What session.get / raise_for_status / response.json() can do
Outcome(k, b) == [kind |-> k, body |-> b]
TransportFailures ==
    {Outcome(k, NoneBody) : k \in {"timeout", "conn_error", "http_error", "bad_json"}}
OddBodies == {Outcome("json", b) : b \in {NoneBody, NumBody, ListBody, EmptyObj, PlainObj}}
JsonItems(S) == {Outcome("json", ItemsObj(it)) : it \in S}

----------------------------------------------------------------------------
(* The registry client *)

Ret(v) == [raised |-> FALSE, exc |-> "", value |-> v]
Raise(e) == [raised |-> TRUE, exc |-> e, value |-> <<>>]

\* bool(response)
Truthy(b) == b.t \in {"num", "list"} \/ (b.t = "obj" /\ ~b.empty)

\* _make_request: the response the caller gets for outcome o.  Timeouts,
\* connection errors and raise_for_status() raise a RequestException, and so
\* does response.json() on an unparsable body (requests.JSONDecodeError, since
\* requests 2.27); all are caught and give None.
_make_request(o) == IF o.kind = "json" THEN o.body ELSE NoneBody

\* search_companies, given the response
search_companies(response) ==
    IF ~Truthy(response) THEN Ret(<<>>)
    ELSE IF response.t = "num" THEN Raise("TypeError")      \* 'items' in 5
    ELSE IF response.t = "obj" /\ response.hasItems THEN Ret(response.items)
    ELSE Ret(<<>>)

\* a failed request taken for an empty profile ("response or {}")
get_company_profileOfNothing(response) ==
    IF response.t = "num" THEN Raise("TypeError")
    ELSE IF response.t = "list" THEN Raise("AttributeError")
    ELSE Ret("CompanyProfile")

\* get_company_profile: "None" is the absent signal
get_company_profile(response) ==
    IF ~Truthy(response) THEN Ret("None")
    ELSE IF response.t = "num" THEN Raise("TypeError")       \* 'sic_codes' in 5
    ELSE IF response.t = "list" THEN Raise("AttributeError") \* [..].get
    ELSE Ret("CompanyProfile")

\* officer_id of one raw item: split('/')[-2] if the link is truthy else ''
OfficerId(link) ==
    IF link = <<>> THEN Ret(<<>>)
    ELSE IF Len(Split(link)) < 2 THEN Raise("IndexError")
    ELSE Ret(Split(link)[Len(Split(link)) - 1])

Officer(item) ==
    [officer_id |-> OfficerId(item.appointments).value, name |-> item.name,
     role |-> item.officer_role, appointed_on |-> item.appointed_on]

get_officers(response) ==
    IF ~Truthy(response) THEN Ret(<<>>)
    ELSE IF response.t = "num" THEN Raise("TypeError")       \* 'items' not in 5
    ELSE IF ~(response.t = "obj" /\ response.hasItems) THEN Ret(<<>>)
    ELSE LET items == response.items IN
         IF \E k \in 1..Len(items) : OfficerId(items[k].appointments).raised
         THEN Raise("IndexError")
         ELSE Ret([k \in 1..Len(items) |-> Officer(items[k])])

\* the two checks in the other order
PscTypeLegalFirst(item) ==
    IF item.hasKind /\ Contains(item.kind, LegalPerson) THEN "legal-person"
    ELSE IF item.hasKind /\ Contains(item.kind, CorporateEntity) THEN "corporate-entity"
    ELSE "individual"

\* lines 224-231: psc_type of one raw item
PscType(item) ==
    IF item.hasKind /\ Contains(item.kind, CorporateEntity) THEN "corporate-entity"
    ELSE IF item.hasKind /\ Contains(item.kind, LegalPerson) THEN "legal-person"
    ELSE "individual"

Psc(item) == [name |-> item.name, psc_type |-> PscType(item)]

get_pscs(response) ==
    IF ~Truthy(response) THEN Ret(<<>>)
    ELSE IF response.t = "num" THEN Raise("TypeError")       \* 'items' not in 5
    ELSE IF ~(response.t = "obj" /\ response.hasItems) THEN Ret(<<>>)
    ELSE Ret([k \in 1..Len(response.items) |-> Psc(response.items[k])])

----------------------------------------------------------------------------
(* The network builder: get_company_network *)

Min(a, b) == IF a < b THEN a ELSE b

\* the slice left out
CandidatesUncut(cs, n) == cs

\* companies[:max_companies]
Candidates(cs, n) == SubSeq(cs, 1, Min(n, Len(cs)))

\* f"company_{company_number}"
company_id(n) == <<"c", "o", "m", "p", "a", "n", "y", "_">> \o n

\* f"person_{officer.name.replace(' ', '_').lower()}"
person_id(name) == <<"p", "e", "r", "s", "o", "n", "_">> \o Lower(ReplaceSpace(name))

\* the PSC key built with the officers' prefix
psc_idAsPerson(name) == <<"p", "e", "r", "s", "o", "n", "_">> \o Lower(ReplaceSpace(name))

\* f"psc_{psc.name.replace(' ', '_').lower()}"
psc_id(name) == <<"p", "s", "c", "_">> \o Lower(ReplaceSpace(name))

\* the test against processed_companies left out
SkippedWithoutNumber(n, processed) == n = NoNumber

\* "if not company_number or company_number in processed_companies"
Skipped(n, processed) == n = NoNumber \/ n \in processed

\* list.append(x)
Emit(list, x) == Append(list, x)

\* the check of the profile left out
ProfileMissingNever(p) == FALSE

\* "if not profile"
ProfileMissing(p) == p = "None"

\* the membership test left out
NotProcessedAlways(id, processed) == TRUE

\* person_id not in processed_people
NotProcessed(id, processed) == id \notin processed

\* the person_node and psc_node dicts, and the company_node dict (the other
\* attributes are copied from the records and never read by the builder)
Node(id, type, label) == [id |-> id, type |-> type, label |-> label]
CompanyNode(n) == [id |-> company_id(n), type |-> "Company", company_number |-> n]

\* the edge aimed at the bare company number
OfficerEdgeToNumber(pid, n, officer) ==
    [source |-> pid, target |-> n, relationship |-> "DIRECTOR_OF",
     role |-> officer.role, appointed_on |-> officer.appointed_on]

\* lines 326-332: the edge dict of an officer
OfficerEdge(pid, n, officer) ==
    [source |-> pid, target |-> company_id(n), relationship |-> "DIRECTOR_OF",
     role |-> officer.role, appointed_on |-> officer.appointed_on]

\* source and target exchanged
PscEdgeReversed(pid, n) ==
    [source |-> company_id(n), target |-> pid, relationship |-> "CONTROLS"]

\* lines 356-362: the edge dict of a PSC (its natures of control and its
\* notification date, carried along unread, are left out)
PscEdge(pid, n) ==
    [source |-> pid, target |-> company_id(n), relationship |-> "CONTROLS"]

\* len([n for n in network['nodes'] if n['type'] == 'Company'])
CountCompanies(nodes) == Cardinality({k \in 1..Len(nodes) : nodes[k].type = "Company"})

\* PSC nodes left out of the count
CountPeoplePersonsOnly(nodes) ==
    Cardinality({k \in 1..Len(nodes) : nodes[k].type = "Person"})

\* len([n for n in network['nodes'] if n['type'] in ['Person', 'PSC']])
CountPeople(nodes) ==
    Cardinality({k \in 1..Len(nodes) : nodes[k].type \in {"Person", "PSC"}})

EmptyNetwork ==
    [nodes |-> <<>>, edges |-> <<>>,
     metadata |-> [total_companies |-> 0, total_people |-> 0]]

NoCall == [op |-> "none", outcome |-> Outcome("none", NoneBody), result |-> Ret(<<>>)]

\* One request of the build: which operation, for which candidate, whether the
\* transport failed, how the client operation ended, and the records it
\* returned, with their names
LogEntry(op, c, n, o, res) ==
    [op |-> op, cand |-> c, number |-> n,
     failed |-> (o.kind # "json"),
     ret |-> IF res.raised THEN "raise"
             ELSE IF op = "profile" /\ res.value = "None" THEN "absent"
             ELSE "value",
     names |-> IF ~res.raised /\ op \in {"officers", "pscs"}
               THEN [k \in 1..Len(res.value) |-> res.value[k].name]
               ELSE <<>>,
     records |-> IF ~res.raised /\ op \in {"officers", "pscs"} THEN res.value ELSE <<>>]

RECURSIVE RecordsIn(_)
\* the officer and PSC records the requests of l have returned
RecordsIn(l) == IF l = <<>> THEN 0 ELSE Len(Head(l).names) + RecordsIn(Tail(l))

SearchOutcomes ==
    TransportFailures \cup OddBodies
    \cup JsonItems(SeqsUpTo({Hit(n) : n \in Numbers \cup {NoNumber}}, MaxHits))

ProfileOutcomes == TransportFailures \cup OddBodies

OfficerOutcomes ==
    TransportFailures \cup OddBodies
    \cup JsonItems(SeqsUpTo({BuildOfficerItem(n) : n \in OfficerNames}, MaxOfficers)
                   \cup {<<OfficerItem(NameB, Director, Date1, BareLink)>>})

PscOutcomes ==
    TransportFailures \cup OddBodies
    \cup JsonItems(SeqsUpTo({PscItem(n, TRUE, KindIndividual) : n \in PscNames}, MaxPscs))

\* every reply of the registry to a request of the build, with what the
\* client operation makes of it
Reply(o, res) == [outcome |-> o, result |-> res]

ProfileReplies == {Reply(o, get_company_profile(_make_request(o))) : o \in ProfileOutcomes}

OfficerReplies == {Reply(o, get_officers(_make_request(o))) : o \in OfficerOutcomes}

PscReplies == {Reply(o, get_pscs(_make_request(o))) : o \in PscOutcomes}

\* ---- the page (src/Home.py) ----------------------------------------------
NoKey == <<>>          \* the key field empty; CH_API_KEY not set
KeyK == <<"k">>
KeyJ == <<"j">>
Keys == {NoKey, KeyK, KeyJ}

NoQuery == <<>>
QueryQ == <<"q">>
Queries == {NoQuery, QueryQ}

\* st.session_state after init_session_state (lines 82-89); ch_api_key is
\* not in it until line 405 puts it there, and reads as '' (line 243)
FirstSession ==
    [ch_api_key |-> NoKey, ch_search_results |-> <<>>, ch_network_data |-> FALSE,
     ch_company_details |-> {}]

\* what a run of the script did: the button that was pressed, whether a
\* client was made and sent a request to the registry, with which key, and
\* the message shown
Did(entry, requested, key, message) ==
    [entry |-> entry, requested |-> requested, key |-> key, message |-> message]

Nothing == Did("none", FALSE, NoKey, "none")

\* no request under way
Resting == [at |-> "idle", current_time |-> 0, slept |-> FALSE]

NoBuild ==
    [network |-> EmptyNetwork, log |-> <<>>, companies |-> <<>>, max_companies |-> 0,
     ended |-> "idle"]

Init ==
    /\ pc = "idle"
    /\ max_companies = 0
    /\ companies = <<>>
    /\ i = 0
    /\ network = EmptyNetwork
    /\ processed_companies = {}
    /\ processed_people = {}
    /\ officers = <<>>
    /\ pscs = <<>>
    /\ log = <<>>
    /\ call = NoCall
    /\ prev = NoBuild
    /\ now = min_request_interval
    /\ last_request_time = 0
    /\ rpc = Resting
    /\ sends = <<>>
    /\ api_key = NoKey
    /\ search_query = NoQuery
    /\ session_state = FirstSession
    /\ shown = Nothing

Cur == Candidates(companies, max_companies)[i].company_number

\* the replies of the registry: a build on a client that has built before is
\* given the replies of the build before it, request by request (the case in
\* which builds can be compared); the first build is given any reply
Answers(e) ==
    prev.log = <<>> \/ (Len(log) < Len(prev.log) /\ prev.log[Len(log) + 1] = e)

\* processed_people kept on the client instead of created per call
BeginKeepingPeople(n, o) ==
    LET res == search_companies(_make_request(o)) IN
    /\ max_companies' = n
    /\ log' = <<LogEntry("search", 0, NoNumber, o, res)>>
    /\ network' = EmptyNetwork
    /\ IF res.raised
       THEN pc' = "raised" /\ companies' = <<>> /\ i' = 0
       ELSE IF res.value = <<>>
       THEN pc' = "done" /\ companies' = <<>> /\ i' = 0
       ELSE pc' = "loop" /\ companies' = res.value /\ i' = 1
    /\ processed_companies' = {}
    /\ UNCHANGED processed_people
    /\ officers' = <<>>
    /\ pscs' = <<>>

\* lines 261-278: the empty network, the search, the early return, the two
\* sets; every name of the function is a fresh local
Begin(n, o) ==
    LET res == search_companies(_make_request(o)) IN
    /\ max_companies' = n
    /\ log' = <<LogEntry("search", 0, NoNumber, o, res)>>
    /\ network' = EmptyNetwork
    /\ IF res.raised
       THEN pc' = "raised" /\ companies' = <<>> /\ i' = 0
       ELSE IF res.value = <<>>
       THEN pc' = "done" /\ companies' = <<>> /\ i' = 0
       ELSE pc' = "loop" /\ companies' = res.value /\ i' = 1
    /\ processed_companies' = {}
    /\ processed_people' = {}
    /\ officers' = <<>>
    /\ pscs' = <<>>

\* get_company_network called on a new client
BeginBuild ==
    /\ pc = "idle"
    /\ \E n \in 0..MaxCap, o \in SearchOutcomes : Begin(n, o)
    /\ UNCHANGED <<call, prev, outside>>

\* what the caller of a build that has ended keeps of it
Ended ==
    [network |-> network, log |-> log, companies |-> companies,
     max_companies |-> max_companies, ended |-> pc]

\* get_company_network called again on the same client, the registry
\* answering as before
Rebuild ==
    /\ pc \in {"done", "raised"}
    /\ Len(companies) + RecordsIn(log) <= MaxReplay
    /\ prev' = Ended
    /\ \E o \in SearchOutcomes :
         /\ LogEntry("search", 0, NoNumber, o, search_companies(_make_request(o))) = log[1]
         /\ search_companies(_make_request(o)).raised
              \/ search_companies(_make_request(o)).value = companies
         /\ Begin(max_companies, o)
    /\ UNCHANGED <<call, outside>>

\* lines 280-283: no company number, or one already processed
SkipCandidate ==
    /\ pc = "loop"
    /\ i <= Len(Candidates(companies, max_companies))
    /\ Skipped(Cur, processed_companies)
    /\ i' = i + 1
    /\ UNCHANGED <<pc, max_companies, companies, network, processed_companies,
                   processed_people, officers, pscs, log, call>>
    /\ UNCHANGED <<prev, outside>>

\* lines 285-304: the profile, and the Company node
FetchProfile ==
    /\ pc = "loop"
    /\ i <= Len(Candidates(companies, max_companies))
    /\ ~Skipped(Cur, processed_companies)
    /\ \E r \in ProfileReplies :
         LET o == r.outcome
             res == r.result IN
         /\ Answers(LogEntry("profile", i, Cur, o, res))
         /\ log' = Append(log, LogEntry("profile", i, Cur, o, res))
         /\ IF res.raised
            THEN pc' = "raised"
                 /\ UNCHANGED <<i, network, processed_companies>>
            ELSE IF ProfileMissing(res.value)
            THEN i' = i + 1
                 /\ UNCHANGED <<pc, network, processed_companies>>
            ELSE /\ network' = [network EXCEPT
                        !.nodes = Emit(@, CompanyNode(Cur))]
                 /\ processed_companies' = processed_companies \cup {Cur}
                 /\ pc' = "officers"
                 /\ UNCHANGED i
    /\ UNCHANGED <<max_companies, companies, processed_people, officers, pscs, call>>
    /\ UNCHANGED <<prev, outside>>

\* line 307
FetchOfficers ==
    /\ pc = "officers"
    /\ \E r \in OfficerReplies :
         LET o == r.outcome
             res == r.result IN
         /\ Len(companies) + RecordsIn(log) + Len(res.value) <= MaxData
         /\ Answers(LogEntry("officers", i, Cur, o, res))
         /\ log' = Append(log, LogEntry("officers", i, Cur, o, res))
         /\ IF res.raised
            THEN pc' = "raised" /\ UNCHANGED officers
            ELSE pc' = "officer_loop" /\ officers' = res.value
    /\ UNCHANGED <<max_companies, companies, i, network, processed_companies,
                   processed_people, pscs, call>>
    /\ UNCHANGED <<prev, outside>>

\* the edge appended inside the "if", only for a new person
AddOfficerEdgeIfNew ==
    /\ pc = "officer_loop"
    /\ officers # <<>>
    /\ LET pid == person_id(Head(officers).name) IN
       /\ network' = IF NotProcessed(pid, processed_people)
                     THEN [network EXCEPT
                            !.nodes = Emit(@, Node(pid, "Person", Head(officers).name)),
                            !.edges = Emit(@, OfficerEdge(pid, Cur, Head(officers)))]
                     ELSE network
       /\ processed_people' = processed_people \cup {pid}
    /\ officers' = Tail(officers)
    /\ UNCHANGED <<pc, max_companies, companies, i, processed_companies, pscs, log, call>>
    /\ UNCHANGED <<prev, outside>>

\* lines 308-334: one round of the loop over the officers
AddOfficer ==
    /\ pc = "officer_loop"
    /\ officers # <<>>
    /\ LET pid == person_id(Head(officers).name) IN
       /\ network' = [network EXCEPT
              !.nodes = IF NotProcessed(pid, processed_people)
                        THEN Emit(@, Node(pid, "Person", Head(officers).name))
                        ELSE @,
              !.edges = Emit(@, OfficerEdge(pid, Cur, Head(officers)))]
       /\ processed_people' = processed_people \cup {pid}
    /\ officers' = Tail(officers)
    /\ UNCHANGED <<pc, max_companies, companies, i, processed_companies, pscs, log, call>>
    /\ UNCHANGED <<prev, outside>>

\* line 337
FetchPscs ==
    /\ pc = "officer_loop"
    /\ officers = <<>>
    /\ \E r \in PscReplies :
         LET o == r.outcome
             res == r.result IN
         /\ Len(companies) + RecordsIn(log) + Len(res.value) <= MaxData
         /\ Answers(LogEntry("pscs", i, Cur, o, res))
         /\ log' = Append(log, LogEntry("pscs", i, Cur, o, res))
         /\ IF res.raised
            THEN pc' = "raised" /\ UNCHANGED pscs
            ELSE pc' = "psc_loop" /\ pscs' = res.value
    /\ UNCHANGED <<max_companies, companies, i, network, processed_companies,
                   processed_people, officers, call>>
    /\ UNCHANGED <<prev, outside>>

\* the loop over the PSCs walking the list from its end
AddPscFromEnd ==
    /\ pc = "psc_loop"
    /\ pscs # <<>>
    /\ LET pid == psc_id(Last(pscs).name) IN
       /\ network' = [network EXCEPT
              !.nodes = IF NotProcessed(pid, processed_people)
                        THEN Emit(@, Node(pid, "PSC", Last(pscs).name))
                        ELSE @,
              !.edges = Emit(@, PscEdge(pid, Cur))]
       /\ processed_people' = processed_people \cup {pid}
    /\ pscs' = SubSeq(pscs, 1, Len(pscs) - 1)
    /\ UNCHANGED <<pc, max_companies, companies, i, processed_companies, officers,
                   log, call>>
    /\ UNCHANGED <<prev, outside>>

\* lines 338-364: one round of the loop over the PSCs
AddPsc ==
    /\ pc = "psc_loop"
    /\ pscs # <<>>
    /\ LET pid == psc_id(Head(pscs).name) IN
       /\ network' = [network EXCEPT
              !.nodes = IF NotProcessed(pid, processed_people)
                        THEN Emit(@, Node(pid, "PSC", Head(pscs).name))
                        ELSE @,
              !.edges = Emit(@, PscEdge(pid, Cur))]
       /\ processed_people' = processed_people \cup {pid}
    /\ pscs' = Tail(pscs)
    /\ UNCHANGED <<pc, max_companies, companies, i, processed_companies, officers,
                   log, call>>
    /\ UNCHANGED <<prev, outside>>

\* the PSC loop is over: next round of the loop over the candidates
EndCandidate ==
    /\ pc = "psc_loop"
    /\ pscs = <<>>
    /\ pc' = "loop"
    /\ i' = i + 1
    /\ UNCHANGED <<max_companies, companies, network, processed_companies,
                   processed_people, officers, pscs, log, call>>
    /\ UNCHANGED <<prev, outside>>

\* lines 366-370: the counts, and the return
Finish ==
    /\ pc = "loop"
    /\ i > Len(Candidates(companies, max_companies))
    /\ network' = [network EXCEPT
           !.metadata = [total_companies |-> CountCompanies(network.nodes),
                         total_people |-> CountPeople(network.nodes)]]
    /\ pc' = "done"
    /\ UNCHANGED <<max_companies, companies, i, processed_companies, processed_people,
                   officers, pscs, log, call>>
    /\ UNCHANGED <<prev, outside>>

Next ==
    \/ BeginBuild
    \/ SkipCandidate
    \/ FetchProfile
    \/ FetchOfficers
    \/ AddOfficer
    \/ FetchPscs
    \/ AddPsc
    \/ EndCandidate
    \/ Finish

Spec == Init /\ [][Next]_vars

\* ---- _make_request in time ------------------------------------------------
\* Time passes while the client sleeps, while a request is under way and
\* between two operations; the statements of _rate_limit and the call of
\* session.get that follows it take no time.  The clock does not go back and
\* time.sleep lasts at least as long as asked.

\* line 90
time_since_last_request == rpc.current_time - last_request_time

\* lines 87-89: a client operation has called _make_request, which calls
\* _rate_limit, which reads the clock
ReadClock ==
    /\ rpc.at = "idle"
    /\ now <= MaxTime
    /\ rpc' = [at |-> "read", current_time |-> now, slept |-> FALSE]
    /\ UNCHANGED <<now, last_request_time, sends>>
    /\ UNCHANGED <<buildVars, call, pageVars>>

\* lines 91-92
Sleep ==
    /\ rpc.at = "read"
    /\ time_since_last_request < min_request_interval
    /\ \E over \in 0..MaxDelay :
         now' = now + (min_request_interval - time_since_last_request) + over
    /\ rpc' = [rpc EXCEPT !.at = "woke", !.slept = TRUE]
    /\ UNCHANGED <<last_request_time, sends>>
    /\ UNCHANGED <<buildVars, call, pageVars>>

\* the stamp is the clock reading taken before the sleep
StampAtRead ==
    /\ \/ rpc.at = "woke"
       \/ rpc.at = "read" /\ ~(time_since_last_request < min_request_interval)
    /\ last_request_time' = rpc.current_time
    /\ rpc' = [rpc EXCEPT !.at = "stamped"]
    /\ UNCHANGED <<now, sends>>
    /\ UNCHANGED <<buildVars, call, pageVars>>

\* line 93, after the sleep or with the sleep not taken
Stamp ==
    /\ \/ rpc.at = "woke"
       \/ rpc.at = "read" /\ ~(time_since_last_request < min_request_interval)
    /\ last_request_time' = now
    /\ rpc' = [rpc EXCEPT !.at = "stamped"]
    /\ UNCHANGED <<now, sends>>
    /\ UNCHANGED <<buildVars, call, pageVars>>

\* the last two entries of a history
LastTwo(h) == IF Len(h) <= 2 THEN h ELSE SubSeq(h, Len(h) - 1, Len(h))

\* lines 98-99: session.get is called, the request goes out
Send ==
    /\ rpc.at = "stamped"
    /\ sends' = LastTwo(Append(sends, now))
    /\ rpc' = [rpc EXCEPT !.at = "sent"]
    /\ UNCHANGED <<now, last_request_time>>
    /\ UNCHANGED <<buildVars, call, pageVars>>

\* lines 99-116: the request ends, with a body, an error status or a
\* transport failure, after any time up to the bound
Respond ==
    /\ rpc.at = "sent"
    /\ \E d \in 0..MaxDelay : now' = now + d
    /\ rpc' = [rpc EXCEPT !.at = "idle"]
    /\ UNCHANGED <<last_request_time, sends>>
    /\ UNCHANGED <<buildVars, call, pageVars>>

\* between two operations of the client
Pause ==
    /\ rpc.at = "idle"
    /\ \E d \in 1..MaxDelay : now + d <= MaxTime /\ now' = now + d
    /\ UNCHANGED <<last_request_time, rpc, sends>>
    /\ UNCHANGED <<buildVars, call, pageVars>>

NextRate ==
    \/ ReadClock
    \/ Sleep
    \/ Stamp
    \/ Send
    \/ Respond
    \/ Pause

SpecRate == Init /\ [][NextRate]_vars

\* ---- the page: one action per run of the script ---------------------------
\* lines 404-405, in every run of main
StoreKey(session, key) ==
    IF key # NoKey THEN [session EXCEPT !.ch_api_key = key] ELSE session

\* lines 397-402: the key field is edited, the script runs with no button
EditKey ==
    /\ \E k \in Keys :
         /\ k # api_key
         /\ api_key' = k
         /\ session_state' = StoreKey(session_state, k)
    /\ shown' = Nothing
    /\ UNCHANGED search_query
    /\ UNCHANGED <<buildVars, call, rateVars>>

\* lines 408-412
EditQuery ==
    /\ \E q \in Queries : q # search_query /\ search_query' = q
    /\ session_state' = StoreKey(session_state, api_key)
    /\ shown' = Nothing
    /\ UNCHANGED api_key
    /\ UNCHANGED <<buildVars, call, rateVars>>

\* lines 424-444
ClickSearch ==
    /\ IF api_key = NoKey
       THEN /\ shown' = Did("search", FALSE, NoKey, "key")
            /\ session_state' = StoreKey(session_state, api_key)
       ELSE IF search_query = NoQuery
       THEN /\ shown' = Did("search", FALSE, NoKey, "query")
            /\ session_state' = StoreKey(session_state, api_key)
       ELSE \E o \in SearchOutcomes :
              LET res == search_companies(_make_request(o))
                  session == StoreKey(session_state, api_key) IN
              IF res.raised
              THEN /\ shown' = Did("search", TRUE, api_key, "exception")
                   /\ session_state' = session
              ELSE IF res.value # <<>>
              THEN /\ shown' = Did("search", TRUE, api_key, "success")
                   /\ session_state' = [session EXCEPT !.ch_search_results = res.value]
              ELSE /\ shown' = Did("search", TRUE, api_key, "warning")
                   /\ session_state' = [session EXCEPT !.ch_search_results = <<>>]
    /\ UNCHANGED <<api_key, search_query>>
    /\ UNCHANGED <<buildVars, call, rateVars>>

\* lines 446-464; get_company_network itself is the subject of Spec: it
\* sends the search and then raises, or returns a network with or without
\* nodes
ClickBuildNetwork ==
    /\ IF api_key = NoKey
       THEN /\ shown' = Did("build", FALSE, NoKey, "key")
            /\ session_state' = StoreKey(session_state, api_key)
       ELSE IF search_query = NoQuery
       THEN /\ shown' = Did("build", FALSE, NoKey, "query")
            /\ session_state' = StoreKey(session_state, api_key)
       ELSE \E end \in {"raised", "nodes", "empty"} :
              LET session == StoreKey(session_state, api_key) IN
              IF end = "raised"
              THEN /\ shown' = Did("build", TRUE, api_key, "exception")
                   /\ session_state' = session
              ELSE IF end = "nodes"
              THEN /\ shown' = Did("build", TRUE, api_key, "success")
                   /\ session_state' = [session EXCEPT !.ch_network_data = TRUE]
              ELSE /\ shown' = Did("build", TRUE, api_key, "warning")
                   /\ session_state' = session
    /\ UNCHANGED <<api_key, search_query>>
    /\ UNCHANGED <<buildVars, call, rateVars>>

\* lines 250-255: whether one of the three client operations raises, over
\* the replies of the registry
DetailsRaise ==
    {get_company_profile(_make_request(o1)).raised
        \/ get_officers(_make_request(o2)).raised
        \/ get_pscs(_make_request(o3)).raised :
     o1 \in ProfileOutcomes, o2 \in OfficerOutcomes, o3 \in PscOutcomes}

\* lines 241-267, with the key the session holds
get_company_details(session, company_number) ==
    IF session.ch_api_key = NoKey
    THEN {<<session, Did("details", FALSE, NoKey, "key")>>}
    ELSE {<<IF raised THEN session
            ELSE [session EXCEPT !.ch_company_details = @ \cup {company_number}],
            Did("details", TRUE, session.ch_api_key,
                IF raised THEN "exception" ELSE "details")>> :
          raised \in DetailsRaise}

\* lines 467-468 and 235-239: the button of a listed company
ClickDetails ==
    /\ \E c \in 1..Len(session_state.ch_search_results) :
         LET session == StoreKey(session_state, api_key)
             company_number == session.ch_search_results[c].company_number IN
         IF company_number = NoNumber
         THEN /\ shown' = Nothing          \* line 238: get_company_details not called
              /\ session_state' = session
         ELSE \E r \in get_company_details(session, company_number) :
                /\ session_state' = r[1]
                /\ shown' = r[2]
    /\ UNCHANGED <<api_key, search_query>>
    /\ UNCHANGED <<buildVars, call, rateVars>>

NextPage ==
    \/ EditKey
    \/ EditQuery
    \/ ClickSearch
    \/ ClickBuildNetwork
    \/ ClickDetails

SpecPage == Init /\ [][NextPage]_vars

\* builds repeated on one client
NextRebuild ==
    \/ Next
    \/ Rebuild

SpecRebuild == Init /\ [][NextRebuild]_vars

----------------------------------------------------------------------------
(* The client operations called on their own (Home.py calls them directly) *)

ClientOfficerOutcomes ==
    TransportFailures \cup OddBodies
    \cup JsonItems(SeqsUpTo({OfficerItem(NameB, Director, Date1, l) : l \in Links}, MaxItems))

ClientPscOutcomes ==
    TransportFailures \cup OddBodies
    \cup JsonItems(SeqsUpTo({PscItem(NameB, TRUE, k) : k \in Kinds}
                            \cup {PscItem(NameB, FALSE, KindEmpty)}, MaxItems))

Called(op, o, res) == [op |-> op, outcome |-> o, result |-> res]

CallSearch ==
    /\ \E o \in SearchOutcomes :
         call' = Called("search", o, search_companies(_make_request(o)))
    /\ UNCHANGED <<buildVars, outside>>

CallProfile ==
    /\ \E o \in ProfileOutcomes :
         call' = Called("profile", o, get_company_profile(_make_request(o)))
    /\ UNCHANGED <<buildVars, outside>>

CallOfficers ==
    /\ \E o \in ClientOfficerOutcomes :
         call' = Called("officers", o, get_officers(_make_request(o)))
    /\ UNCHANGED <<buildVars, outside>>

CallPscs ==
    /\ \E o \in ClientPscOutcomes :
         call' = Called("pscs", o, get_pscs(_make_request(o)))
    /\ UNCHANGED <<buildVars, outside>>

NextClient ==
    \/ CallSearch
    \/ CallProfile
    \/ CallOfficers
    \/ CallPscs

SpecClient == Init /\ [][NextClient]_vars

----------------------------------------------------------------------------
(* Vocabulary of the properties *)

Nodes == network.nodes
Edges == network.edges
NodeIds == {Nodes[k].id : k \in 1..Len(Nodes)}
NodesOfType(t) == {k \in 1..Len(Nodes) : Nodes[k].type = t}
LogIx == 1..Len(log)
Cands == Candidates(companies, max_companies)

\* the normalised name as the specification words it: lowercased, spaces
\* replaced by underscores
ClaimLower(c) == IF c = "A" THEN "a" ELSE IF c = "B" THEN "b" ELSE c
ClaimKey(name) ==
    [k \in 1..Len(name) |-> IF name[k] = " " THEN "_" ELSE ClaimLower(name[k])]
PersonKey(name) == <<"p", "e", "r", "s", "o", "n", "_">> \o ClaimKey(name)
CompanyKey(n) == <<"c", "o", "m", "p", "a", "n", "y", "_">> \o n

HasEdge(src, tgt, rel) ==
    \E k \in 1..Len(Edges) :
        Edges[k].source = src /\ Edges[k].target = tgt /\ Edges[k].relationship = rel

\* the officers (PSCs) request of the build at log position k returned a list
ListEntry(k, op) == log[k].op = op /\ log[k].ret = "value"

----------------------------------------------------------------------------
\* C1: every edge's source and every edge's target is the id of a node of the
\* graph, whatever the registry answered and whichever fetches failed.
C1_ReferentialIntegrity ==
    \A k \in 1..Len(Edges) : Edges[k].source \in NodeIds /\ Edges[k].target \in NodeIds

\* a returned graph with edges of both kinds, built although a fetch failed
C1_Witness ==
    /\ pc = "done"
    /\ \E k \in LogIx : log[k].failed
    /\ \E j, k \in 1..Len(Edges) :
          Edges[j].relationship = "DIRECTOR_OF" /\ Edges[k].relationship = "CONTROLS"

\* C2: no two nodes of the graph have the same id, in the returned graph and
\* after every step of the build, also when search hits repeat a company
\* number and names repeat.
C2_UniqueNodeIds ==
    \A j, k \in 1..Len(Nodes) : j # k => Nodes[j].id # Nodes[k].id

\* a finished build whose hits repeat a company number and whose officers
\* repeat a name within and across companies
C2_Witness ==
    /\ pc = "done"
    /\ Len(Cands) = 2 /\ Cands[1] = Cands[2] /\ Cands[1].company_number # NoNumber
    /\ \E k \in LogIx : ListEntry(k, "officers") /\ log[k].names = <<NameAb, NameAb>>
    /\ Len(Nodes) >= 2

\* C3: when a build returns, two officer records of two different processed
\* companies with the same normalised name have exactly one Person node with
\* that key, and a DIRECTOR_OF edge from it to each of the two companies.
C3_SharedOfficerOneNode ==
    pc = "done" =>
      \A a, b \in LogIx :
        (ListEntry(a, "officers") /\ ListEntry(b, "officers")
           /\ log[a].number # log[b].number) =>
          \A x \in 1..Len(log[a].names), y \in 1..Len(log[b].names) :
            ClaimKey(log[a].names[x]) = ClaimKey(log[b].names[y]) =>
              LET key == PersonKey(log[a].names[x]) IN
              /\ Cardinality({k \in NodesOfType("Person") : Nodes[k].id = key}) = 1
              /\ HasEdge(key, CompanyKey(log[a].number), "DIRECTOR_OF")
              /\ HasEdge(key, CompanyKey(log[b].number), "DIRECTOR_OF")

\* a returned graph of two companies, one listing "A b" and the other "a_b"
C3_Witness ==
    /\ pc = "done"
    /\ \E a, b \in LogIx :
          /\ ListEntry(a, "officers") /\ ListEntry(b, "officers")
          /\ log[a].number # log[b].number
          /\ log[a].names = <<NameAb>> /\ log[b].names = <<Name_ab>>

\* the build of the end-to-end scenario: one hit, one officer and one PSC, both "A b"
Scenario ==
    /\ pc = "done"
    /\ companies = <<Hit(Num1)>> /\ max_companies >= 1
    /\ Len(log) = 4
    /\ ListEntry(3, "officers") /\ log[3].names = <<NameAb>>
    /\ ListEntry(4, "pscs") /\ log[4].names = <<NameAb>>

\* C4: an officer and a PSC with the same raw name never share a node: the
\* officer's edge leaves a Person node and the PSC's edge a different node, of
\* type PSC, whichever is discovered first and on whichever companies; no node
\* has both a DIRECTOR_OF and a CONTROLS edge.  One company with one officer
\* "A b" and one PSC "A b" gives 3 nodes (Company, Person, PSC) and 2 edges
\* (DIRECTOR_OF, CONTROLS), both to the company node.
C4_OfficerPscSeparate ==
    pc = "done" =>
      /\ \A a, b \in LogIx :
           (ListEntry(a, "officers") /\ ListEntry(b, "pscs")) =>
             \A x \in 1..Len(log[a].names), y \in 1..Len(log[b].names) :
               log[a].names[x] = log[b].names[y] =>
                 \E p \in NodesOfType("Person"), q \in NodesOfType("PSC") :
                   /\ Nodes[p].id # Nodes[q].id
                   /\ ClaimKey(Nodes[p].label) = ClaimKey(log[a].names[x])
                   /\ ClaimKey(Nodes[q].label) = ClaimKey(log[b].names[y])
                   /\ HasEdge(Nodes[p].id, CompanyKey(log[a].number), "DIRECTOR_OF")
                   /\ HasEdge(Nodes[q].id, CompanyKey(log[b].number), "CONTROLS")
      /\ \A j, k \in 1..Len(Edges) :
           (Edges[j].relationship = "DIRECTOR_OF" /\ Edges[k].relationship = "CONTROLS")
             => Edges[j].source # Edges[k].source
      /\ Scenario =>
           /\ Len(Nodes) = 3
           /\ Cardinality(NodesOfType("Company")) = 1
           /\ Cardinality(NodesOfType("Person")) = 1
           /\ Cardinality(NodesOfType("PSC")) = 1
           /\ Len(Edges) = 2
           /\ \E j, k \in 1..2 :
                /\ Edges[j].relationship = "DIRECTOR_OF"
                /\ Edges[k].relationship = "CONTROLS"
           /\ \A k \in 1..2 : Edges[k].target = Nodes[1].id /\ Nodes[1].type = "Company"

C4_Witness == Scenario

\* the PSC "A b" of the first company is discovered before the officer "A b"
\* of the second
PscBeforeOfficer ==
    /\ pc = "done"
    /\ \E a, b \in LogIx :
          /\ a < b /\ ListEntry(a, "pscs") /\ ListEntry(b, "officers")
          /\ log[a].names = <<NameAb>> /\ log[b].names = <<NameAb>>

\* C5: on every return path, the early return included, total_companies is
\* the number of Company nodes and total_people the number of Person and PSC
\* nodes of the returned node list.
C5_MetadataCounts ==
    pc = "done" =>
      /\ network.metadata.total_companies = Cardinality(NodesOfType("Company"))
      /\ network.metadata.total_people
           = Cardinality(NodesOfType("Person")) + Cardinality(NodesOfType("PSC"))

\* a returned graph with nodes of the three types
C5_Witness ==
    /\ pc = "done"
    /\ NodesOfType("Company") # {}
    /\ NodesOfType("Person") # {}
    /\ NodesOfType("PSC") # {}

\* the early return: the search gave nothing
EarlyReturn == pc = "done" /\ Len(log) = 1 /\ Nodes = <<>>

\* C6: the returned graph has at most max_companies Company nodes, also when
\* the search returned more hits than max_companies, and for max_companies = 0.
C6_CompanyCap ==
    pc = "done" => Cardinality(NodesOfType("Company")) <= max_companies

\* more hits than the cap, and as many Company nodes as the cap allows
C6_Witness ==
    /\ pc = "done"
    /\ Len(companies) > max_companies
    /\ max_companies >= 1
    /\ Cardinality(NodesOfType("Company")) = max_companies

\* C7 as stated: a candidate with a failed fetch (profile, officers or PSCs)
\* is skipped, so a returned graph holds no Company node for it and no edge
\* to it.  (For a failed profile fetch the node could stem from another hit
\* with the same number; the statement is then made only if there is none.)
C7_FailedFetchSkipsCandidate ==
    pc = "done" =>
      \A k \in LogIx :
        (log[k].failed /\ log[k].op \in {"profile", "officers", "pscs"}
           /\ \A c \in 1..Len(Cands) :
                 c # log[k].cand => Cands[c].company_number # log[k].number) =>
          /\ CompanyKey(log[k].number) \notin NodeIds
          /\ \A e \in 1..Len(Edges) : Edges[e].target # CompanyKey(log[k].number)

\* the step that issued a request of the build
Requested(op) == Len(log') = Len(log) + 1 /\ Last(log').op = op

\* C7 as amended: a failed profile fetch skips the candidate (no node, no
\* edge, on to the next candidate); a failed officers or PSC fetch does not:
\* the candidate's Company node stays, the failed list adds no node and no
\* edge, and the build goes on with the PSC fetch or the next candidate.
C7_FailedFetchAmended ==
    [][/\ (Requested("profile") /\ Last(log').failed) =>
            /\ network' = network
            /\ processed_companies' = processed_companies
            /\ pc' = "loop" /\ i' = i + 1
       /\ (Requested("officers") /\ Last(log').failed) =>
            /\ network' = network
            /\ CompanyKey(Last(log').number) \in NodeIds'
            /\ officers' = <<>> /\ pc' = "officer_loop" /\ i' = i
       /\ (Requested("pscs") /\ Last(log').failed) =>
            /\ network' = network
            /\ CompanyKey(Last(log').number) \in NodeIds'
            /\ pscs' = <<>> /\ pc' = "psc_loop" /\ i' = i
      ]_vars

\* a returned graph: the profile fetch of the first candidate failed, the
\* officers fetch of the second failed and its PSC fetch gave a PSC
C7_Witness ==
    /\ pc = "done"
    /\ \E a, b, c \in LogIx :
         /\ log[a].op = "profile" /\ log[a].failed /\ log[a].cand = 1
         /\ log[b].op = "officers" /\ log[b].failed /\ log[b].cand = 2
         /\ log[c].op = "pscs" /\ ~log[c].failed /\ log[c].cand = 2
         /\ Len(log[c].names) = 1
    /\ Len(Nodes) = 2 /\ Len(Edges) = 1

\* every candidate was reached: it had no number, or a number processed
\* before, or its profile was requested
AllVisited ==
    \A c \in 1..Len(Cands) :
       \/ Cands[c].company_number = NoNumber
       \/ \E k \in LogIx : log[k].op = "profile" /\ log[k].cand = c
       \/ \E k \in LogIx : /\ log[k].op = "profile" /\ log[k].ret = "value"
                           /\ log[k].cand < c
                           /\ log[k].number = Cands[c].company_number

\* C8: when the profile fetch of a candidate gives the absent signal, the
\* step adds no node and no edge and moves to the next candidate; officers
\* and PSCs are only ever requested for a candidate whose profile was
\* returned; and a build that returns has reached every candidate.
C8_AbsentProfileSkips ==
    [][/\ (Requested("profile") /\ Last(log').ret = "absent") =>
            /\ network' = network
            /\ processed_companies' = processed_companies
            /\ pc' = "loop" /\ i' = i + 1
       /\ (Requested("officers") \/ Requested("pscs")) =>
            \E k \in LogIx : /\ log[k].op = "profile" /\ log[k].ret = "value"
                             /\ log[k].cand = Last(log').cand
                             /\ log[k].number = Last(log').number
       /\ pc' = "done" => AllVisited'
      ]_vars

\* a returned graph: the first candidate's profile was absent, the second
\* candidate was processed with an officer
C8_Witness ==
    /\ pc = "done"
    /\ \E a, b, c \in LogIx :
         /\ log[a].op = "profile" /\ log[a].ret = "absent" /\ log[a].cand = 1
         /\ log[b].op = "profile" /\ log[b].ret = "value" /\ log[b].cand = 2
         /\ log[c].op = "officers" /\ log[c].cand = 2 /\ Len(log[c].names) >= 1
    /\ \A k \in LogIx : log[k].op \in {"officers", "pscs"} => log[k].cand # 1
    /\ Cardinality(NodesOfType("Company")) = 1

\* C9: no client operation lets a failure escape: whatever the request did,
\* search_companies, get_officers and get_pscs return a list (empty on zero
\* matches or failure) and get_company_profile a profile or the absent signal.
C9_NoExceptionEscapes ==
    call.op # "none" =>
      /\ ~call.result.raised
      /\ (call.op # "profile" /\ (call.outcome.kind # "json"
            \/ ~call.outcome.body.hasItems \/ call.outcome.body.items = <<>>))
           => call.result.value = <<>>
      /\ call.op = "profile" => call.result.value \in {"None", "CompanyProfile"}

\* the officer_id the specification words: empty when the link is missing or
\* has fewer than two '/'-separated segments, else the second-to-last segment
ClaimedOfficerId(link) ==
    IF link = <<>> \/ Len(Split(link)) < 2 THEN <<>>
    ELSE Split(link)[Len(Split(link)) - 1]

\* C10: get_officers maps every raw officer record to an Officer without
\* raising; officer_id is empty when the appointments link is missing or
\* cannot be parsed, else the second-to-last '/'-separated segment.
C10_OfficerIdBestEffort ==
    (call.op = "officers" /\ call.outcome.kind = "json"
       /\ call.outcome.body.t = "obj" /\ call.outcome.body.hasItems) =>
      /\ ~call.result.raised
      /\ Len(call.result.value) = Len(call.outcome.body.items)
      /\ \A k \in 1..Len(call.outcome.body.items) :
           call.result.value[k].officer_id
             = ClaimedOfficerId(call.outcome.body.items[k].appointments)

\* the classification as the specification words it
ClaimedPscType(hasKind, kind) ==
    CASE hasKind /\ Contains(kind, CorporateEntity) -> "corporate-entity"
      [] hasKind /\ ~Contains(kind, CorporateEntity) /\ Contains(kind, LegalPerson)
           -> "legal-person"
      [] OTHER -> "individual"

\* get_pscs returned a list for a body with items
PscsMapped ==
    /\ call.op = "pscs" /\ call.outcome.kind = "json"
    /\ call.outcome.body.t = "obj" /\ call.outcome.body.hasItems
    /\ ~call.result.raised

\* C12: get_pscs classifies each raw PSC record: 'corporate-entity' if kind
\* contains "corporate-entity", else 'legal-person' if it contains
\* "legal-person", else (also without a kind) 'individual'; a kind with both
\* substrings is 'corporate-entity', and psc_type is one of the three values.
C12_PscTypeOrder ==
    PscsMapped =>
      /\ Len(call.result.value) = Len(call.outcome.body.items)
      /\ \A k \in 1..Len(call.outcome.body.items) :
           LET item == call.outcome.body.items[k]
               type == call.result.value[k].psc_type IN
           /\ type = ClaimedPscType(item.hasKind, item.kind)
           /\ type \in {"individual", "corporate-entity", "legal-person"}
           /\ (item.hasKind /\ item.kind = KindBoth) => type = "corporate-entity"
           /\ ~item.hasKind => type = "individual"

\* get_pscs classified a record with both substrings, one without a kind and
\* a legal person
C12_Witness ==
    /\ PscsMapped
    /\ \E a, b, c \in 1..Len(call.outcome.body.items) :
         /\ call.outcome.body.items[a].kind = KindBoth
         /\ ~call.outcome.body.items[b].hasKind
         /\ call.result.value[c].psc_type = "legal-person"

\* the nodes with a given id
WithId(id) == {k \in 1..Len(Nodes) : Nodes[k].id = id}

\* C13: every edge goes from a person-type node to a Company node: a
\* DIRECTOR_OF edge leaves a Person node, a CONTROLS edge a PSC node, both
\* arrive at a Company node, and there is no other relationship tag.
C13_EdgeEndsTyped ==
    \A k \in 1..Len(Edges) :
      LET e == Edges[k] IN
      /\ e.relationship \in {"DIRECTOR_OF", "CONTROLS"}
      /\ WithId(e.source) # {} /\ WithId(e.target) # {}
      /\ \A n \in WithId(e.target) : Nodes[n].type = "Company"
      /\ \A n \in WithId(e.source) :
           Nodes[n].type = IF e.relationship = "DIRECTOR_OF" THEN "Person" ELSE "PSC"

\* a returned graph with a DIRECTOR_OF edge to one company and a CONTROLS
\* edge to another
C13_Witness ==
    /\ pc = "done"
    /\ \E j, k \in 1..Len(Edges) :
         /\ Edges[j].relationship = "DIRECTOR_OF" /\ Edges[k].relationship = "CONTROLS"
         /\ Edges[j].target # Edges[k].target

EdgesTo(n, rel) ==
    {k \in 1..Len(Edges) : Edges[k].target = CompanyKey(n) /\ Edges[k].relationship = rel}

ListEntries(n, op) == {k \in LogIx : log[k].op = op /\ log[k].number = n}

\* C15: for every company number, however many hits carry it, at most one
\* Company node is emitted and its officers and PSCs are requested at most
\* once; the returned graph has one edge per record of that one request.
C15_DuplicateHitsGuarded ==
    \A n \in Numbers :
      /\ Cardinality({k \in NodesOfType("Company") : Nodes[k].company_number = n}) <= 1
      /\ Cardinality(ListEntries(n, "officers")) <= 1
      /\ Cardinality(ListEntries(n, "pscs")) <= 1
      /\ pc = "done" =>
           /\ \A k \in ListEntries(n, "officers") :
                Cardinality(EdgesTo(n, "DIRECTOR_OF")) = Len(log[k].names)
           /\ \A k \in ListEntries(n, "pscs") :
                Cardinality(EdgesTo(n, "CONTROLS")) = Len(log[k].names)
           /\ ListEntries(n, "officers") = {} => EdgesTo(n, "DIRECTOR_OF") = {}
           /\ ListEntries(n, "pscs") = {} => EdgesTo(n, "CONTROLS") = {}

\* two hits with one company number, processed once, with an officer and a PSC
C15_Witness ==
    /\ pc = "done"
    /\ Len(Cands) = 2 /\ Cands[1] = Cands[2] /\ Cands[1].company_number = Num1
    /\ Cardinality(EdgesTo(Num1, "DIRECTOR_OF")) = 1
    /\ Cardinality(EdgesTo(Num1, "CONTROLS")) = 1

PscKey(name) == <<"p", "s", "c", "_">> \o ClaimKey(name)

\* a node as the claim sees it: its id and the name (or number) it shows
Seen(id, label) == [id |-> id, label |-> label]

SeenNode(node) ==
    Seen(node.id, IF node.type = "Company" THEN node.company_number ELSE node.label)

RECURSIVE AddKeys(_, _)
\* the entries of acc, then those of keys whose id is not yet among them, in
\* order
AddKeys(acc, keys) ==
    IF keys = <<>> THEN acc
    ELSE IF \E k \in 1..Len(acc) : acc[k].id = Head(keys).id THEN AddKeys(acc, Tail(keys))
    ELSE AddKeys(Append(acc, Head(keys)), Tail(keys))

\* what the request at log position k discovers: the ids, each with the
\* name of the record that brings it, and the edges, each with the role and
\* the date of its record
KeysOf(k) ==
    CASE log[k].op = "profile" /\ log[k].ret = "value" ->
           <<Seen(CompanyKey(log[k].number), log[k].number)>>
      [] log[k].op = "officers" ->
           [x \in 1..Len(log[k].records) |->
              Seen(PersonKey(log[k].records[x].name), log[k].records[x].name)]
      [] log[k].op = "pscs" ->
           [x \in 1..Len(log[k].records) |->
              Seen(PscKey(log[k].records[x].name), log[k].records[x].name)]
      [] OTHER -> <<>>

EdgesOf(k) ==
    CASE log[k].op = "officers" ->
           [x \in 1..Len(log[k].records) |->
              [source |-> PersonKey(log[k].records[x].name),
               target |-> CompanyKey(log[k].number),
               relationship |-> "DIRECTOR_OF",
               role |-> log[k].records[x].role,
               appointed_on |-> log[k].records[x].appointed_on]]
      [] log[k].op = "pscs" ->
           [x \in 1..Len(log[k].records) |->
              [source |-> PscKey(log[k].records[x].name),
               target |-> CompanyKey(log[k].number),
               relationship |-> "CONTROLS"]]
      [] OTHER -> <<>>

RECURSIVE DiscoveredIds(_)
\* the ids first met by the requests 1..k, in the order of the requests and,
\* within a request, of its records
DiscoveredIds(k) == IF k = 0 THEN <<>> ELSE AddKeys(DiscoveredIds(k - 1), KeysOf(k))

RECURSIVE DiscoveredEdges(_)
DiscoveredEdges(k) == IF k = 0 THEN <<>> ELSE DiscoveredEdges(k - 1) \o EdgesOf(k)

\* C16: nodes and edges are in discovery order, unsorted: the requests of a
\* build follow the search-result order, per company profile, officers, PSCs;
\* the node list is the list of ids in the order in which these requests and
\* their records first met them (Company node before its people, officers
\* before PSCs, each list in the order the registry gave it), every node
\* showing the name of the record that first brought it; and the edge list
\* has the edges of each request in record order, with the role and date of
\* their records.
C16_DiscoveryOrder ==
    pc = "done" =>
      /\ [k \in 1..Len(Nodes) |-> SeenNode(Nodes[k])] = DiscoveredIds(Len(log))
      /\ Edges = DiscoveredEdges(Len(log))
      /\ \A j, k \in LogIx : j < k => log[j].cand <= log[k].cand

\* a returned graph of a company with two officers of different keys and
\* roles and two PSCs of different keys: the order of either list shows in
\* the nodes and in the edges
C16_Witness ==
    /\ pc = "done"
    /\ \E a, b \in LogIx :
         /\ log[a].op = "officers" /\ log[b].op = "pscs" /\ log[a].number = log[b].number
         /\ Len(log[a].records) = 2 /\ Len(log[b].records) = 2
         /\ ClaimKey(log[a].records[1].name) # ClaimKey(log[a].records[2].name)
         /\ log[a].records[1].role # log[a].records[2].role
         /\ ClaimKey(log[b].records[1].name) # ClaimKey(log[b].records[2].name)
    /\ Len(Nodes) = 5
    /\ Len(Edges) = 4

RECURSIVE Records(_, _)
\* the number of records the requests op of log positions 1..k returned
Records(k, op) ==
    IF k = 0 THEN 0
    ELSE Records(k - 1, op) + (IF log[k].op = op THEN Len(log[k].names) ELSE 0)

EdgesTagged(rel) == {k \in 1..Len(Edges) : Edges[k].relationship = rel}

\* C17: one edge per officer record and per PSC record of every processed
\* company, whether or not the person's node existed: as many DIRECTOR_OF
\* edges as officer records and as many CONTROLS edges as PSC records; a
\* person listed twice on one company has one node and two parallel edges.
C17_OneEdgePerRecord ==
    pc = "done" =>
      /\ Cardinality(EdgesTagged("DIRECTOR_OF")) = Records(Len(log), "officers")
      /\ Cardinality(EdgesTagged("CONTROLS")) = Records(Len(log), "pscs")
      /\ \A k \in LogIx :
           (log[k].op = "officers" /\ Len(log[k].names) = 2
              /\ ClaimKey(log[k].names[1]) = ClaimKey(log[k].names[2])) =>
             /\ Cardinality(WithId(PersonKey(log[k].names[1]))) = 1
             /\ Cardinality({e \in EdgesTo(log[k].number, "DIRECTOR_OF") :
                                Edges[e].source = PersonKey(log[k].names[1])}) = 2

\* a returned graph of a company that lists one person twice, as "A b" and "a_b"
C17_Witness ==
    /\ pc = "done"
    /\ \E k \in LogIx : log[k].op = "officers" /\ log[k].names = <<NameAb, Name_ab>>
    /\ Cardinality(NodesOfType("Person")) = 1

\* C18: every build ends by returning: one search request, then at most
\* 3 * max_companies requests; each of the first max_companies hits is
\* visited; no failure on a candidate stops the build before the later ones.
C18_BuildRunsToCompletion ==
    /\ pc # "raised"
    /\ log # <<>> =>
         /\ log[1].op = "search"
         /\ \A k \in 2..Len(log) : log[k].op # "search"
         /\ Len(log) <= 1 + 3 * max_companies
    /\ pc = "done" => AllVisited

\* C14: builds do not influence each other: a build on a client that has
\* built before, given the registry replies of the build before it, returns
\* the nodes and edges that build returned on its fresh state, every person
\* of the earlier graph as a node again; and the graph the earlier caller
\* holds stays as it was while later builds run.
C14_BuildsIndependent ==
    [][/\ (pc' = "done" /\ prev'.log # <<>>) =>
            /\ prev'.ended = "done"
            /\ network'.nodes = prev'.network.nodes
            /\ network'.edges = prev'.network.edges
            /\ network'.metadata = prev'.network.metadata
       /\ prev.log # <<>> => prev'.network = prev.network
      ]_vars

\* a repeated build has returned a graph with the Person and PSC nodes the
\* build before it had emitted
C14_Witness ==
    /\ pc = "done"
    /\ prev.log # <<>> /\ prev.ended = "done"
    /\ \E k \in 1..Len(prev.network.nodes) : prev.network.nodes[k].type = "Person"
    /\ \E k \in 1..Len(prev.network.nodes) : prev.network.nodes[k].type = "PSC"
    /\ NodesOfType("Person") # {} /\ NodesOfType("PSC") # {}

\* C19: on one client, a request is sent at least min_request_interval after
\* the request before it was sent, whatever the requests and the pauses
\* between them last.
C19_RequestsSpaced ==
    Len(sends) = 2 => sends[2] - sends[1] >= min_request_interval

\* a request that came too early has been held back and sent
C19_Witness ==
    /\ rpc.at = "sent"
    /\ rpc.slept
    /\ Len(sends) = 2
    /\ sends[2] - sends[1] = min_request_interval

\* C11: a credential check precedes every network call: while the key field
\* is empty, a press of Search, Build Network or Get Detailed Info sends no
\* registry request and shows the missing-key error, whatever keys were
\* entered and cleared before.
C11_KeyCheckedFirst ==
    (api_key = NoKey /\ shown.entry # "none") =>
        /\ ~shown.requested
        /\ shown.message = "key"

====
